---- MODULE Spec2Model ----
(***************************************************************************)
(* Model of the federated distributed-DP utilities:                        *)
(*   distributed_dp/fl_utils.py    get_total_dim, pad_dim, build_aggregator *)
(*   utils/datasets/emnist_dataset.py   get_federated_datasets             *)
(* Python floats are modelled as exact rationals <<num, den>>; values the  *)
(* code only records (never computes with again) are kept as the terms     *)
(* that compute them.                                                      *)
(***************************************************************************)
EXTENDS Integers, Sequences, FiniteSets, TLC

(* ------------------------------ bounds --------------------------------- *)
\* largest num_clients / num_clients_per_round explored
MaxClients == 2
\* largest compression_flags['num_bits'] explored
MaxBits == 2
\* largest magnitude of a client coordinate in a round
MaxVal == 2
\* largest dim given to pad_dim on its own
MaxDim == 130
\* largest epochs-per-round argument of get_federated_datasets
MaxEpochs == 2

(* --------------------------- Python values ----------------------------- *)
\* Optional values: None is the empty tuple, a present value v is <<v>>.
None == <<>>
Some(v) == <<v>>
Val(o) == o[1]

Abs(x) == IF x < 0 THEN -x ELSE x

RECURSIVE GCD(_, _)
GCD(a, b) == IF b = 0 THEN a ELSE GCD(b, a % b)

\* The rational n/d in lowest terms with a positive denominator (d # 0).
Rat(n, d) ==
  LET g == GCD(Abs(n), Abs(d))
      s == IF d < 0 THEN -1 ELSE 1
  IN  <<(s * n) \div g, (s * d) \div g>>

FromInt(i) == <<i, 1>>
RAdd(a, b) == Rat(a[1] * b[2] + b[1] * a[2], a[2] * b[2])
RSub(a, b) == Rat(a[1] * b[2] - b[1] * a[2], a[2] * b[2])
RMul(a, b) == Rat(a[1] * b[1], a[2] * b[2])
RDiv(a, b) == Rat(a[1] * b[2], a[2] * b[1])
RLt(a, b) == a[1] * b[2] < b[1] * a[2]
RLe(a, b) == a[1] * b[2] <= b[1] * a[2]
RAbs(a) == <<Abs(a[1]), a[2]>>
RNeg(a) == <<-a[1], a[2]>>
\* floor of a rational: the greatest integer f with f*den <= num
RFloor(a) == IF a[1] >= 0 THEN a[1] \div a[2]
             ELSE -((-a[1] + a[2] - 1) \div a[2])
\* floored modulus, as Python's % and tf.math.floormod
RFloorMod(a, w) == RSub(a, RMul(w, FromInt(RFloor(RDiv(a, w)))))
\* round half to even, as Python's round / tf.round / np.round
Round(a) ==
  LET f == RFloor(a)
      r == RSub(a, FromInt(f))
  IN  IF RLt(r, <<1, 2>>) THEN f
      ELSE IF RLt(<<1, 2>>, r) THEN f + 1
      ELSE IF f % 2 = 0 THEN f ELSE f + 1

\* 2**e of Python: an int for e >= 0, the float 2^e for e < 0
Pow2(e) == IF e >= 0 THEN FromInt(2 ^ e) ELSE <<1, 2 ^ (-e)>>

\* Strings whose letter case matters are sequences of ASCII codes.
lower(s) == [i \in 1..Len(s) |->
               IF s[i] >= 65 /\ s[i] <= 90 THEN s[i] + 32 ELSE s[i]]

str_gaussian == <<103, 97, 117, 115, 115, 105, 97, 110>>
str_GAUSSIAN == <<71, 65, 85, 83, 83, 73, 65, 78>>
str_ddgauss == <<100, 100, 103, 97, 117, 115, 115>>
str_DDGauss == <<68, 68, 71, 97, 117, 115, 115>>
str_none == <<110, 111, 110, 101>>
str_laplace == <<108, 97, 112, 108, 97, 99, 101>>

\* dict.update
Update(d, e) == [k \in DOMAIN d \cup DOMAIN e |->
                   IF k \in DOMAIN e THEN e[k] ELSE d[k]]

(* ------------------------- Dimension calculator ------------------------ *)
RECURSIVE Prod(_)
Prod(shape) == IF shape = <<>> THEN 1 ELSE Head(shape) * Prod(Tail(shape))

RECURSIVE get_total_dim(_)
get_total_dim(client_template_) ==
  IF client_template_ = <<>> THEN 0
  ELSE Prod(Head(client_template_)) + get_total_dim(Tail(client_template_))

\* np.ceil(np.log2(dim)) for dim >= 1: the least k with 2^k >= dim
RECURSIVE ceil_log2(_)
ceil_log2(dim) == IF dim <= 1 THEN 0 ELSE 1 + ceil_log2((dim + 1) \div 2)

\* np.floor(np.log2(dim)): what a floor in place of the ceil would give
RECURSIVE floor_log2(_)
floor_log2(dim) == IF dim <= 1 THEN 0 ELSE 1 + floor_log2(dim \div 2)

pad_dim_floor(dim) == 2 ^ floor_log2(dim)

pad_dim(dim) == 2 ^ ceil_log2(dim)

(* ------------------------------ state ---------------------------------- *)
VARIABLES
  \* arguments of build_aggregator
  dp_flags, compression_flags, num_clients, num_clients_per_round,
  num_rounds, client_template,
  \* build_aggregator's position, local variables and results
  pc, locals, agg_factory, params_dict, outcome,
  \* history: the stage objects constructed and the accountant calls made
  constructed, accountant_calls,
  \* one round of the returned aggregator
  round_inputs, round_noise, stage_log, aggregate_value,
  \* a call of pad_dim on its own
  pad_arg, pad_ret,
  \* a call of get_federated_datasets
  ds_args, ds_pc, ds_loaded, ds_outcome, ds_result

argVars == <<dp_flags, compression_flags, num_clients, num_clients_per_round,
             num_rounds, client_template>>
buildVars == <<pc, locals, agg_factory, params_dict, outcome, constructed,
               accountant_calls>>
roundVars == <<round_inputs, round_noise, stage_log, aggregate_value>>
padVars == <<pad_arg, pad_ret>>
dsVars == <<ds_args, ds_pc, ds_loaded, ds_outcome, ds_result>>
vars == <<argVars, buildVars, roundVars, padVars, dsVars>>

(* ------------------------------ inputs --------------------------------- *)
EpsilonVals == {None, Some(-1), Some(0), Some(1)}
ClipVals == {None, Some(0), Some(1), Some(2)}
DeltaVals == {None, Some(<<0, 1>>), Some(<<1, 2>>), Some(<<2, 1>>)}
MechanismVals == {str_gaussian, str_GAUSSIAN, str_ddgauss, str_DDGauss,
                  str_none, str_laplace}
KStddevsVals == {None, Some(2)}
BetaVals == {<<1, 2>>}
NumRoundsVals == {3}
TemplateVals == {<<<<3>>>>, <<<<2, 2>>, <<1>>>>}

(* ------------------- external collaborators (boundary) ----------------- *)
\* Privacy accountant: either an answer or AccountingError, for any input.
GammaVals == {<<1, 2>>, <<2, 1>>}
StddevVals == {0, 1}
NoiseMultVals == {<<1, 1>>}
get_gauss_noise_multiplier ==
  {<<"ok", m>> : m \in NoiseMultVals} \cup {<<"AccountingError">>}
ddgauss_params ==
  {<<"ok", g, FromInt(s)>> : g \in GammaVals, s \in StddevVals}
    \cup {<<"AccountingError">>}
rounded_l2_norm_bound(l2, beta, dim) == <<"rounded_l2_norm_bound", l2, beta, dim>>

\* floats the code records and never computes with again
np_sqrt(x) == <<"sqrt", x>>
fmul(a, b) == <<"mul", a, b>>
fdiv(a, b) == <<"div", a, b>>

\* Aggregation factories: a pipeline is the sequence of its stages, the
\* outermost first; wrapping an inner factory puts the new stage in front.
SumFactory == <<[kind |-> "sum"]>>
ModularClippingSumFactory(lo, hi, inner) ==
  <<[kind |-> "modclip", clip_range_lower |-> lo, clip_range_upper |-> hi]>>
    \o inner
build_ddp_query(mech, stddev, l2, beta, pdim, scale) ==
  [mechanism |-> mech, local_stddev |-> stddev, l2_norm_bound |-> l2,
   beta |-> beta, padded_dim |-> pdim, scale |-> scale]
DifferentiallyPrivateFactory(query, inner) ==
  <<[kind |-> "dp", query |-> query]>> \o inner
clipping_factory(clipping_norm, inner) ==
  <<[kind |-> "l2clip", clipping_norm |-> clipping_norm]>> \o inner
\* value_sum_factory defaults to a plain sum
UnweightedMeanFactory(inner) ==
  <<[kind |-> "mean"]>> \o (IF inner = <<>> THEN SumFactory ELSE inner)
gaussian_fixed(noise_multiplier, clients_per_round, clip) ==
  <<[kind |-> "gaussian_fixed", noise_multiplier |-> noise_multiplier,
     clients_per_round |-> clients_per_round, clip |-> clip]>>

(* --------------------------- build_aggregator -------------------------- *)
Running == [kind |-> "running", msg |-> "", arg |-> <<>>]
Returned == [kind |-> "returned", msg |-> "", arg |-> <<>>]
Raise(kind, msg, arg) == [kind |-> kind, msg |-> msg, arg |-> arg]

\* truthiness in `x or default` of an optional float and of an optional int
TruthyFloat(o) == o # None /\ Val(o)[1] # 0
TruthyInt(o) == o # None /\ Val(o) # 0

\* line 42 without the sentinel: only an absent epsilon means no DP
no_dp_none_only(epsilon) == epsilon = None

\* line 42: the test that selects the no-DP branch
no_dp(epsilon) == epsilon = None \/ epsilon = Some(-1)

\* lines 141-169 with the L2 clip wrapped before the DP query
ddgauss_build_order_clip_inside ==
  <<"SumFactory", "ModularClippingSumFactory", "clipping_factory",
    "DifferentiallyPrivateFactory", "UnweightedMeanFactory">>

\* lines 141-169: the factories in the order the code constructs them
ddgauss_build_order ==
  <<"SumFactory", "ModularClippingSumFactory", "DifferentiallyPrivateFactory",
    "clipping_factory", "UnweightedMeanFactory">>

\* lines 59-69
shared_params(L) ==
  [epsilon |-> L.epsilon, delta |-> L.delta, clip |-> L.clip, dim |-> L.dim,
   sampling_rate |-> L.sampling_rate, mechanism |-> L.mechanism,
   num_clients |-> num_clients,
   num_clients_per_round |-> num_clients_per_round,
   num_rounds |-> num_rounds]

\* lines 121-134
discrete_params(L) ==
  [bits |-> L.bits, beta |-> L.beta, dim |-> L.dim,
   padded_dim |-> L.padded_dim, gamma |-> L.gamma, scale |-> L.scale,
   k_stddevs |-> L.k_stddevs, local_stddev |-> L.local_stddev,
   mechanism |-> L.mechanism, inflated_l2 |-> L.inflated_l2,
   noise_mult_clip |-> L.noise_mult_clip,
   noise_mult_inflated |-> L.noise_mult_inflated]

Fail(kind, msg, arg) ==
  /\ outcome' = Raise(kind, msg, arg)
  /\ pc' = "raised"

\* lines 40-42
ReadBudget ==
  /\ pc = "l40"
  /\ locals' = [clip |-> dp_flags.l2_norm_clip, epsilon |-> dp_flags.epsilon]
  /\ pc' = IF no_dp(dp_flags.epsilon) THEN "l43" ELSE "l52"
  /\ UNCHANGED <<argVars, agg_factory, params_dict, outcome, constructed,
                 accountant_calls, roundVars, padVars, dsVars>>

\* line 43
NoDPMean ==
  /\ pc = "l43"
  /\ agg_factory' = UnweightedMeanFactory(<<>>)
  /\ constructed' = Append(constructed, "UnweightedMeanFactory")
  /\ pc' = "l44"
  /\ UNCHANGED <<argVars, locals, params_dict, outcome, accountant_calls,
                 roundVars, padVars, dsVars>>

\* lines 44-46
NoDPClip ==
  /\ pc = "l44"
  /\ IF locals.clip = None
       THEN /\ pc' = "l47"
            /\ UNCHANGED <<agg_factory, constructed, outcome>>
       ELSE IF ~(Val(locals.clip) > 0)
         THEN /\ Fail("AssertionError", "Norm clip must be positive.",
                      locals.clip)
              /\ UNCHANGED <<agg_factory, constructed>>
         ELSE /\ agg_factory' = clipping_factory(Val(locals.clip), agg_factory)
              /\ constructed' = Append(constructed, "clipping_factory")
              /\ pc' = "l47"
              /\ UNCHANGED outcome
  /\ UNCHANGED <<argVars, locals, params_dict, accountant_calls,
                 roundVars, padVars, dsVars>>

\* lines 47-49
NoDPReturn ==
  /\ pc = "l47"
  /\ params_dict' = [clip |-> locals.clip]
  /\ outcome' = Returned
  /\ pc' = "returned"
  /\ UNCHANGED <<argVars, locals, agg_factory, constructed, accountant_calls,
                 roundVars, padVars, dsVars>>

\* line 52
AssertEpsilon ==
  /\ pc = "l52"
  /\ IF Val(locals.epsilon) > 0
       THEN pc' = "l53" /\ UNCHANGED outcome
       ELSE Fail("AssertionError", "Epsilon should be positive", locals.epsilon)
  /\ UNCHANGED <<argVars, locals, agg_factory, params_dict, constructed,
                 accountant_calls, roundVars, padVars, dsVars>>

\* line 53
AssertClip ==
  /\ pc = "l53"
  /\ IF locals.clip # None /\ Val(locals.clip) > 0
       THEN pc' = "l54" /\ UNCHANGED outcome
       ELSE Fail("AssertionError", "Clip must be positive", locals.clip)
  /\ UNCHANGED <<argVars, locals, agg_factory, params_dict, constructed,
                 accountant_calls, roundVars, padVars, dsVars>>

\* lines 54-72
SharedParams ==
  /\ pc = "l54"
  /\ IF num_clients = 0
       THEN /\ Fail("ZeroDivisionError", "float division by zero", <<>>)
            /\ UNCHANGED <<locals, params_dict>>
       ELSE LET L == Update(locals,
                       [sampling_rate |-> Rat(num_clients_per_round, num_clients),
                        delta |-> IF TruthyFloat(dp_flags.delta)
                                    THEN Val(dp_flags.delta)
                                    ELSE Rat(1, num_clients),
                        mechanism |-> lower(dp_flags.dp_mechanism),
                        dim |-> get_total_dim(client_template)])
            IN  /\ locals' = L
                /\ params_dict' = shared_params(L)
                /\ pc' = "l75"
                /\ UNCHANGED outcome
  /\ UNCHANGED <<argVars, agg_factory, constructed, accountant_calls,
                 roundVars, padVars, dsVars>>

\* lines 75-80
GaussAccount ==
  /\ pc = "l75"
  /\ locals.mechanism = str_gaussian
  /\ accountant_calls' = Append(accountant_calls, "get_gauss_noise_multiplier")
  /\ \E resp \in get_gauss_noise_multiplier :
       IF resp[1] = "ok"
         THEN /\ locals' = Update(locals, [noise_mult |-> resp[2]])
              /\ pc' = "l83"
              /\ UNCHANGED outcome
         ELSE /\ Fail("AccountingError", "infeasible", <<>>)
              /\ UNCHANGED locals
  /\ UNCHANGED <<argVars, agg_factory, params_dict, constructed,
                 roundVars, padVars, dsVars>>

\* lines 83-90
GaussFactory ==
  /\ pc = "l83"
  /\ agg_factory' = gaussian_fixed(locals.noise_mult, num_clients_per_round,
                                   Val(locals.clip))
  /\ constructed' = Append(constructed, "gaussian_fixed")
  /\ params_dict' = Update(params_dict, [noise_mult |-> locals.noise_mult])
  /\ pc' = "l174"
  /\ UNCHANGED <<argVars, locals, outcome, accountant_calls,
                 roundVars, padVars, dsVars>>

\* lines 93-100
DDGaussDerive ==
  /\ pc = "l75"
  /\ locals.mechanism # str_gaussian
  /\ locals.mechanism = str_ddgauss
  /\ LET bits == compression_flags.num_bits
     IN  locals' = Update(locals,
           [padded_dim |-> pad_dim(locals.dim),
            k_stddevs |-> IF TruthyInt(compression_flags.k_stddevs)
                            THEN Val(compression_flags.k_stddevs) ELSE 4,
            beta |-> compression_flags.beta,
            bits |-> bits,
            mod_clip_lo |-> RNeg(Pow2(bits - 1)),
            mod_clip_hi |-> Pow2(bits - 1)])
  /\ pc' = "l102"
  /\ UNCHANGED <<argVars, agg_factory, params_dict, outcome, constructed,
                 accountant_calls, roundVars, padVars, dsVars>>

\* lines 102-113
DDGaussAccount ==
  /\ pc = "l102"
  /\ accountant_calls' = Append(accountant_calls, "ddgauss_params")
  /\ \E resp \in ddgauss_params :
       IF resp[1] = "ok"
         THEN /\ locals' = Update(locals,
                   [gamma |-> resp[2], local_stddev |-> resp[3],
                    scale |-> RDiv(FromInt(1), resp[2])])
              /\ pc' = "l115"
              /\ UNCHANGED outcome
         ELSE /\ Fail("AccountingError", "infeasible", <<>>)
              /\ UNCHANGED locals
  /\ UNCHANGED <<argVars, agg_factory, params_dict, constructed,
                 roundVars, padVars, dsVars>>

\* lines 115-119
DDGaussNoise ==
  /\ pc = "l115"
  /\ LET clip == FromInt(Val(locals.clip))
         central_stddev == fmul(locals.local_stddev,
                                np_sqrt(num_clients_per_round))
         inflated_l2 == fdiv(rounded_l2_norm_bound(RMul(clip, locals.scale),
                                                   locals.beta,
                                                   locals.padded_dim),
                             locals.scale)
     IN  locals' = Update(locals,
           [central_stddev |-> central_stddev,
            noise_mult_clip |-> fdiv(central_stddev, clip),
            inflated_l2 |-> inflated_l2,
            noise_mult_inflated |-> fdiv(central_stddev, inflated_l2)])
  /\ accountant_calls' = Append(accountant_calls, "rounded_l2_norm_bound")
  /\ pc' = "l121"
  /\ UNCHANGED <<argVars, agg_factory, params_dict, outcome, constructed,
                 roundVars, padVars, dsVars>>

\* lines 121-138
DDGaussParams ==
  /\ pc = "l121"
  /\ params_dict' = Update(params_dict, discrete_params(locals))
  /\ pc' = "l141"
  /\ UNCHANGED <<argVars, locals, agg_factory, outcome, constructed,
                 accountant_calls, roundVars, padVars, dsVars>>

\* the factory the k-th construction step of lines 141-169 makes
construct(name, inner, L) ==
  CASE name = "SumFactory" -> SumFactory
    [] name = "ModularClippingSumFactory" ->
         ModularClippingSumFactory(L.mod_clip_lo, L.mod_clip_hi, inner)
    [] name = "DifferentiallyPrivateFactory" ->
         DifferentiallyPrivateFactory(
           build_ddp_query(L.mechanism, L.local_stddev, Val(L.clip), L.beta,
                           L.padded_dim, L.scale), inner)
    [] name = "clipping_factory" -> clipping_factory(Val(L.clip), inner)
    [] name = "UnweightedMeanFactory" -> UnweightedMeanFactory(inner)

\* lines 140-169, one factory per step
BuildStage ==
  /\ pc = "l141"
  /\ LET k == Len(constructed) + 1
         name == ddgauss_build_order[k]
     IN  /\ agg_factory' = construct(name, agg_factory, locals)
         /\ constructed' = Append(constructed, name)
         /\ pc' = IF k = Len(ddgauss_build_order) THEN "l174" ELSE "l141"
  /\ UNCHANGED <<argVars, locals, params_dict, outcome, accountant_calls,
                 roundVars, padVars, dsVars>>

\* lines 171-172
Unsupported ==
  /\ pc = "l75"
  /\ locals.mechanism # str_gaussian
  /\ locals.mechanism # str_ddgauss
  /\ Fail("ValueError", "Unsupported mechanism", dp_flags.dp_mechanism)
  /\ UNCHANGED <<argVars, locals, agg_factory, params_dict, constructed,
                 accountant_calls, roundVars, padVars, dsVars>>

\* line 174
Return ==
  /\ pc = "l174"
  /\ outcome' = Returned
  /\ pc' = "returned"
  /\ UNCHANGED <<argVars, locals, agg_factory, params_dict, constructed,
                 accountant_calls, roundVars, padVars, dsVars>>

BuildNext ==
  \/ ReadBudget \/ NoDPMean \/ NoDPClip \/ NoDPReturn
  \/ AssertEpsilon \/ AssertClip \/ SharedParams
  \/ GaussAccount \/ GaussFactory
  \/ DDGaussDerive \/ DDGaussAccount \/ DDGaussNoise \/ DDGaussParams
  \/ BuildStage \/ Unsupported \/ Return

BuildStart(Eps, Clips, Deltas, Mechs, Clients, PerRound, Bits) ==
  /\ dp_flags \in [l2_norm_clip : Clips, epsilon : Eps, delta : Deltas,
                   dp_mechanism : Mechs]
  /\ compression_flags \in [k_stddevs : KStddevsVals, beta : BetaVals,
                            num_bits : Bits]
  /\ num_clients \in Clients
  /\ num_clients_per_round \in PerRound
  /\ num_rounds \in NumRoundsVals
  /\ client_template \in TemplateVals
  /\ pc = "l40"
  /\ locals = <<>>
  /\ agg_factory = <<>>
  /\ params_dict = <<>>
  /\ outcome = Running
  /\ constructed = <<>>
  /\ accountant_calls = <<>>

RoundIdle ==
  /\ round_inputs = <<>>
  /\ round_noise = <<>>
  /\ stage_log = <<>>
  /\ aggregate_value = None

PadIdle == pad_arg = 0 /\ pad_ret = 0

DsIdle ==
  /\ ds_args = <<>>
  /\ ds_pc = "idle"
  /\ ds_loaded = FALSE
  /\ ds_outcome = "idle"
  /\ ds_result = <<>>

Init ==
  /\ BuildStart(EpsilonVals, ClipVals, DeltaVals, MechanismVals,
                0..MaxClients, 0..MaxClients, 0..MaxBits)
  /\ RoundIdle /\ PadIdle /\ DsIdle

Next == BuildNext

Spec == Init /\ [][Next]_vars

(* ------------------------- one aggregation round ----------------------- *)
\* L2 clip of a one-coordinate vector: its norm is |v|
L2Clip(v, c) ==
  IF RLe(RAbs(v), c) THEN v
  ELSE IF v[1] < 0 THEN RNeg(c) ELSE c

\* per-client quantisation round(x * scale) plus the integer noise drawn
Quantize(v, scale, z) == FromInt(Round(RMul(v, scale)) + z)

\* ((v - lo) mod (hi - lo)) + lo
ModReduce(v, lo, hi) == RAdd(RFloorMod(RSub(v, lo), RSub(hi, lo)), lo)

\* a function over 1..n as the tuple of its values
Tuple(f) == <<>> \o f

RECURSIVE SumSeq(_)
SumSeq(vs) == IF vs = <<>> THEN FromInt(0) ELSE RAdd(Head(vs), SumSeq(Tail(vs)))

\* what each stage does to the clients' values on the way in, outermost
\* stage first, down to the sum
RECURSIVE ClientSide(_, _, _)
ClientSide(stages, vals, noise) ==
  IF stages = <<>> THEN <<>>
  ELSE
    LET s == Head(stages)
        rest == Tail(stages)
        n == 1..Len(vals)
    IN  CASE s.kind = "mean" -> ClientSide(rest, vals, noise)
          [] s.kind = "l2clip" ->
               LET w == Tuple([i \in n |->
                                 L2Clip(vals[i], FromInt(s.clipping_norm))])
               IN  <<[op |-> "l2_clip", vals |-> w]>>
                     \o ClientSide(rest, w, noise)
          [] s.kind = "dp" ->
               LET w == Tuple([i \in n |->
                                 Quantize(vals[i], s.query.scale, noise[i])])
               IN  <<[op |-> "quantize_noise", vals |-> w]>>
                     \o ClientSide(rest, w, noise)
          [] s.kind = "modclip" ->
               LET w == Tuple([i \in n |->
                                 ModReduce(vals[i], s.clip_range_lower,
                                           s.clip_range_upper)])
               IN  <<[op |-> "mod_reduce", vals |-> w]>>
                     \o ClientSide(rest, w, noise)
          [] s.kind = "sum" -> <<[op |-> "sum", vals |-> <<SumSeq(vals)>>]>>

\* what each stage does to the aggregate on the way out, innermost wrapper
\* first (stages is given innermost first, the sum left out)
RECURSIVE ServerSide(_, _, _)
ServerSide(stages, v, count) ==
  IF stages = <<>> THEN <<>>
  ELSE
    LET s == Head(stages)
        rest == Tail(stages)
    IN  CASE s.kind = "modclip" ->
               LET w == ModReduce(v, s.clip_range_lower, s.clip_range_upper)
               IN  <<[op |-> "mod_reduce_sum", vals |-> <<w>>]>>
                     \o ServerSide(rest, w, count)
          [] s.kind = "dp" ->
               LET w == RDiv(v, s.query.scale)
               IN  <<[op |-> "rescale", vals |-> <<w>>]>>
                     \o ServerSide(rest, w, count)
          [] s.kind = "l2clip" -> ServerSide(rest, v, count)
          [] s.kind = "mean" ->
               LET w == RDiv(v, FromInt(count))
               IN  <<[op |-> "mean", vals |-> <<w>>]>>
                     \o ServerSide(rest, w, count)
          [] s.kind = "sum" -> ServerSide(rest, v, count)

Reverse(q) == [i \in 1..Len(q) |-> q[Len(q) + 1 - i]]

\* the stages a round applies, in order, with the values each one produced
RunRound(factory, vals, noise) ==
  LET inward == ClientSide(factory, vals, noise)
      total == inward[Len(inward)].vals[1]
  IN  inward \o ServerSide(Reverse(factory), total, Len(vals))

\* integer noise a client may draw with standard deviation s (cut at s)
NoiseVals(s) == -RFloor(s)..RFloor(s)

\* aggregate(round_inputs) of the returned aggregator, once per round
Aggregate ==
  /\ pc = "returned"
  /\ outcome = Returned
  /\ num_clients_per_round >= 1
  /\ \A i \in 1..Len(agg_factory) : agg_factory[i].kind # "gaussian_fixed"
  /\ stage_log = <<>>
  /\ \E xs \in [1..num_clients_per_round -> -MaxVal..MaxVal] :
     \E zs \in [1..num_clients_per_round -> NoiseVals(locals.local_stddev)] :
       /\ round_inputs' = xs
       /\ round_noise' = zs
       /\ stage_log' = RunRound(agg_factory,
                                Tuple([i \in 1..num_clients_per_round |->
                                         FromInt(xs[i])]),
                                zs)
       /\ aggregate_value' = Some(stage_log'[Len(stage_log')].vals[1])
  /\ UNCHANGED <<argVars, buildVars, padVars, dsVars>>

\* the training loop is done with the round's result; the aggregator is
\* left as it was for the next round
EndRound ==
  /\ stage_log # <<>>
  /\ round_inputs' = <<>>
  /\ round_noise' = <<>>
  /\ stage_log' = <<>>
  /\ aggregate_value' = None
  /\ UNCHANGED <<argVars, buildVars, padVars, dsVars>>

BuildIdle ==
  /\ dp_flags = <<>>
  /\ compression_flags = <<>>
  /\ num_clients = 0
  /\ num_clients_per_round = 0
  /\ num_rounds = 0
  /\ client_template = <<>>
  /\ pc = "idle"
  /\ locals = <<>>
  /\ agg_factory = <<>>
  /\ params_dict = <<>>
  /\ outcome = Running
  /\ constructed = <<>>
  /\ accountant_calls = <<>>

\* the calls of build_aggregator that reach the ddgauss pipeline, then rounds
InitRound ==
  /\ BuildStart({Some(1)}, {Some(1), Some(2)}, {None}, {str_ddgauss},
                {MaxClients}, 1..MaxClients, 0..MaxBits)
  /\ compression_flags.k_stddevs = None
  /\ client_template = <<<<3>>>>
  /\ RoundIdle /\ PadIdle /\ DsIdle

NextRound ==
  \/ ReadBudget \/ AssertEpsilon \/ AssertClip \/ SharedParams
  \/ DDGaussDerive \/ DDGaussAccount \/ DDGaussNoise \/ DDGaussParams
  \/ BuildStage \/ Return \/ Aggregate \/ EndRound

SpecRound == InitRound /\ [][NextRound]_vars

(* ------------------------------- pad_dim ------------------------------- *)
InitPad ==
  /\ pad_arg \in (1..MaxDim) \cup {1000000}
  /\ pad_ret = 0
  /\ BuildIdle /\ RoundIdle /\ DsIdle

\* lines 32-33
PadCall ==
  /\ pad_arg >= 1
  /\ pad_ret = 0
  /\ pad_ret' = pad_dim(pad_arg)
  /\ UNCHANGED <<pad_arg, argVars, buildVars, roundVars, dsVars>>

SpecPad == InitPad /\ [][PadCall]_vars

(* ------------------------ get_federated_datasets ----------------------- *)
MAX_CLIENT_DATASET_SIZE == 418

InitDs ==
  /\ ds_args \in [train_client_batch_size : {20},
                  test_client_batch_size : {100},
                  train_client_epochs_per_round : -1..MaxEpochs,
                  test_client_epochs_per_round : -1..MaxEpochs,
                  train_shuffle_buffer_size : {0, 1, MAX_CLIENT_DATASET_SIZE},
                  test_shuffle_buffer_size : {0, 1, 2},
                  only_digits : BOOLEAN]
  /\ ds_pc = "l76"
  /\ ds_loaded = FALSE
  /\ ds_outcome = "running"
  /\ ds_result = <<>>
  /\ BuildIdle /\ RoundIdle /\ PadIdle

\* line 76: the test the code makes on train_client_epochs_per_round
train_epochs_ok(n) == ~(n < 1)

\* line 79: the test the code makes on test_client_epochs_per_round
test_epochs_ok(n) == ~(n < 0)

\* lines 76-78
DsCheckTrain ==
  /\ ds_pc = "l76"
  /\ IF train_epochs_ok(ds_args.train_client_epochs_per_round)
       THEN ds_pc' = "l79" /\ UNCHANGED ds_outcome
       ELSE /\ ds_pc' = "raised"
            /\ ds_outcome' = "ValueError: train_client_epochs_per_round must be a positive integer."
  /\ UNCHANGED <<ds_args, ds_loaded, ds_result, argVars, buildVars, roundVars,
                 padVars>>

\* lines 79-80
DsCheckTest ==
  /\ ds_pc = "l79"
  /\ IF test_epochs_ok(ds_args.test_client_epochs_per_round)
       THEN ds_pc' = "l81" /\ UNCHANGED ds_outcome
       ELSE /\ ds_pc' = "raised"
            /\ ds_outcome' = "ValueError: test_client_epochs_per_round must be a positive integer."
  /\ UNCHANGED <<ds_args, ds_loaded, ds_result, argVars, buildVars, roundVars,
                 padVars>>

\* lines 81-84
DsShuffleSizes ==
  /\ ds_pc = "l81"
  /\ ds_args' = [ds_args EXCEPT
       !.train_shuffle_buffer_size = IF @ <= 1 THEN 1 ELSE @,
       !.test_shuffle_buffer_size = IF @ <= 1 THEN 1 ELSE @]
  /\ ds_pc' = "l86"
  /\ UNCHANGED <<ds_loaded, ds_outcome, ds_result, argVars, buildVars,
                 roundVars, padVars>>

\* lines 86-87
DsLoad ==
  /\ ds_pc = "l86"
  /\ ds_loaded' = TRUE
  /\ ds_pc' = "l89"
  /\ UNCHANGED <<ds_args, ds_outcome, ds_result, argVars, buildVars,
                 roundVars, padVars>>

\* lines 89-103
DsPreprocess ==
  /\ ds_pc = "l89"
  /\ ds_result' =
       [emnist_train |->
          [shuffle_buffer_size |-> ds_args.train_shuffle_buffer_size,
           num_epochs |-> ds_args.train_client_epochs_per_round,
           batch_size |-> ds_args.train_client_batch_size],
        emnist_test |->
          [shuffle_buffer_size |-> ds_args.test_shuffle_buffer_size,
           num_epochs |-> ds_args.test_client_epochs_per_round,
           batch_size |-> ds_args.test_client_batch_size]]
  /\ ds_outcome' = "returned"
  /\ ds_pc' = "returned"
  /\ UNCHANGED <<ds_args, ds_loaded, argVars, buildVars, roundVars, padVars>>

NextDs == DsCheckTrain \/ DsCheckTest \/ DsShuffleSizes \/ DsLoad \/ DsPreprocess

SpecDs == InitDs /\ [][NextDs]_vars

(* ============================== claims ================================= *)
Done == pc \in {"returned", "raised"}
InvalidBudget == outcome.kind = "AssertionError"
UnsupportedMechanism ==
  outcome.kind = "ValueError" /\ outcome.msg = "Unsupported mechanism"
ArgEpsilon == dp_flags.epsilon
ArgClip == dp_flags.l2_norm_clip
ArgMechanism == lower(dp_flags.dp_mechanism)
PositiveEpsilon == ArgEpsilon # None /\ Val(ArgEpsilon) > 0
PositiveClip == ArgClip # None /\ Val(ArgClip) > 0

\* C1: every execution of build_aggregator that ends in a failure raised it
\* before any aggregation stage or factory object was constructed.
C1_FailureBeforeAnyStage ==
  (outcome.kind \notin {"running", "returned"}) => constructed = <<>>

\* C2: for ddgauss with epsilon > 0, a non-positive clip, non-positive
\* num_bits, a sampling rate outside (0, 1] or a delta outside (0, 1] never
\* reaches the accountant or the construction of the pipeline, and the call
\* ends in an invalid-budget error (num_clients = 0, where the rate itself
\* is undefined and the division raises, is left out of the last part).
C2_DDGaussInvalidBudget ==
  LET bits == compression_flags.num_bits
      badClip == ArgClip # None /\ Val(ArgClip) <= 0
      badRate == num_clients >= 1
                   /\ (num_clients_per_round <= 0
                       \/ num_clients_per_round > num_clients)
      badDelta == TruthyFloat(dp_flags.delta)
                    /\ ~(RLt(FromInt(0), Val(dp_flags.delta))
                         /\ RLe(Val(dp_flags.delta), FromInt(1)))
  IN  (/\ ArgMechanism = str_ddgauss
       /\ PositiveEpsilon
       /\ (badClip \/ bits <= 0 \/ badRate \/ badDelta))
      => /\ accountant_calls = <<>>
         /\ constructed = <<>>
         /\ pc # "returned"
         /\ (Done /\ num_clients >= 1) => InvalidBudget

\* the pipeline "optional clip, then unweighted mean", outermost stage first
NoDPPipeline(clip) ==
  IF clip = None
    THEN <<[kind |-> "mean"], [kind |-> "sum"]>>
    ELSE <<[kind |-> "l2clip", clipping_norm |-> Val(clip)],
           [kind |-> "mean"], [kind |-> "sum"]>>

\* C3: with epsilon > 0 and clip > 0, construction fails with the
\* unsupported-mechanism error exactly when the lower-cased mechanism is not
\* one of none, gaussian, ddgauss; none builds optional-clip-then-mean.
C3_UnsupportedExactly ==
  (Done /\ PositiveEpsilon /\ PositiveClip /\ num_clients >= 1)
    => /\ UnsupportedMechanism
            <=> ArgMechanism \notin {str_none, str_gaussian, str_ddgauss}
       /\ ArgMechanism = str_none
            => pc = "returned" /\ agg_factory = NoDPPipeline(ArgClip)

\* C5: an aggregator is returned for an absent epsilon only if the mechanism
\* is none.
C5_NoneEpsilonOnlyWithNone ==
  (pc = "returned" /\ ArgEpsilon = None) => ArgMechanism = str_none

\* C6 as stated: epsilon = -1 always returns the no-DP pipeline and params
\* and never an invalid-budget error; epsilon = 0 fails with invalid budget.
C6_SentinelAlwaysReturns ==
  Done =>
    /\ ArgEpsilon = Some(-1)
         => /\ outcome = Returned
            /\ agg_factory = NoDPPipeline(ArgClip)
            /\ params_dict = [clip |-> ArgClip]
    /\ ArgEpsilon = Some(0)
         => InvalidBudget /\ params_dict = <<>> /\ constructed = <<>>

\* C6 (amended): epsilon = -1 ends exactly as epsilon = None does: with clip
\* absent or positive both return the pipeline (optional clip, then
\* unweighted mean) and params {clip}; with a clip given and not positive
\* both fail on the clip ("Norm clip must be positive."), never on epsilon.
\* epsilon = 0 fails with the epsilon invalid-budget error and returns
\* nothing.
C6_SentinelSameAsNone ==
  Done =>
    /\ (ArgEpsilon = None \/ ArgEpsilon = Some(-1))
         => IF ArgClip = None \/ Val(ArgClip) > 0
              THEN /\ outcome = Returned
                   /\ agg_factory = NoDPPipeline(ArgClip)
                   /\ params_dict = [clip |-> ArgClip]
              ELSE /\ outcome = Raise("AssertionError",
                                      "Norm clip must be positive.", ArgClip)
                   /\ params_dict = <<>>
    /\ ArgEpsilon = Some(0)
         => /\ outcome = Raise("AssertionError", "Epsilon should be positive",
                               ArgEpsilon)
            /\ params_dict = <<>>
            /\ constructed = <<>>

C6_Witness ==
  /\ pc = "returned"
  /\ ArgEpsilon = Some(-1)
  /\ ArgClip = Some(1)
  /\ ArgMechanism = str_ddgauss
  /\ Len(agg_factory) = 3

BudgetKeys == {"epsilon", "delta", "clip", "mechanism"}
ScheduleKeys == {"num_clients", "num_clients_per_round", "num_rounds"}
CompressionKeys == {"bits", "beta", "k_stddevs"}
DerivedKeys == {"padded_dim", "gamma", "scale", "local_stddev",
                "central_stddev", "noise_mult_clip", "inflated_l2",
                "noise_mult_inflated"}

\* C7: the params record of every successful call made with a budget
\* (epsilon > 0) holds the original budget and schedule values, and for
\* ddgauss also the compression values and every DerivedParams field, with
\* the values the derivation computed.
C7_ParamsComplete ==
  (pc = "returned" /\ PositiveEpsilon) =>
    /\ BudgetKeys \cup ScheduleKeys \subseteq DOMAIN params_dict
    /\ ArgMechanism = str_ddgauss
         => /\ CompressionKeys \cup DerivedKeys \subseteq DOMAIN params_dict
            /\ \A k \in DerivedKeys : params_dict[k] = locals[k]

\* C8: for dim >= 1, pad_dim(dim) is the smallest power of two >= dim: a
\* power of two, >= dim, < 2*dim, equal to dim when dim is a power of two,
\* and 1048576 for dim = 1000000.
C8_PadDimSmallestPow2 ==
  pad_ret # 0 =>
    /\ \E k \in 0..20 : pad_ret = 2 ^ k
    /\ pad_ret >= pad_arg
    /\ pad_ret < 2 * pad_arg
    /\ (\E k \in 0..20 : pad_arg = 2 ^ k) => pad_ret = pad_arg
    /\ \A k \in 0..20 : 2 ^ k >= pad_arg => 2 ^ k >= pad_ret
    /\ pad_arg = 1000000 => pad_ret = 1048576

C8_Witness == pad_arg = 1000000 /\ pad_ret = 1048576

Ops(log) == Tuple([i \in 1..Len(log) |-> log[i].op])
InRange(v, lo, hi) == RLe(lo, v) /\ RLt(v, hi)

\* C4: in a round of the ddgauss pipeline every client value passes the
\* stages in this order: L2 clip, quantize and add noise, modular reduction
\* into [mod_clip_lo, mod_clip_hi), sum, modular reduction of the sum,
\* rescale by 1/scale, division by num_clients_per_round.
C4_StageOrder ==
  stage_log # <<>> =>
    LET n == num_clients_per_round
        clip == FromInt(Val(locals.clip))
        lo == locals.mod_clip_lo
        hi == locals.mod_clip_hi
    IN  /\ Ops(stage_log) = <<"l2_clip", "quantize_noise", "mod_reduce",
                              "sum", "mod_reduce_sum", "rescale", "mean">>
        /\ \A i \in 1..n :
             /\ RLe(RAbs(stage_log[1].vals[i]), clip)
             /\ stage_log[2].vals[i] =
                  FromInt(Round(RMul(stage_log[1].vals[i], locals.scale))
                          + round_noise[i])
             /\ InRange(stage_log[3].vals[i], lo, hi)
        /\ stage_log[4].vals[1] = SumSeq(stage_log[3].vals)
        /\ InRange(stage_log[5].vals[1], lo, hi)
        /\ stage_log[6].vals[1] = RDiv(stage_log[5].vals[1], locals.scale)
        /\ stage_log[7].vals[1] = RDiv(stage_log[6].vals[1], FromInt(n))
        /\ aggregate_value = Some(stage_log[7].vals[1])

C4_Witness ==
  /\ stage_log # <<>>
  /\ num_clients_per_round = 2
  /\ locals.clip = Some(1)
  /\ round_inputs = <<2, -1>>
  /\ round_noise = <<1, 0>>

C10_EpochsValidated ==
  (ds_args # <<>>
   /\ (ds_args.train_client_epochs_per_round < 1
       \/ ds_args.test_client_epochs_per_round < 1))
    => /\ ~ds_loaded
       /\ ds_outcome # "returned"

====
